---- MODULE Spec2Model ----
(***************************************************************************)
(* A model of src/src/utils.py: extract_loss_info_from_stdout (the loss    *)
(* log parser) and convert_and_clean_dict.                                 *)
(*                                                                         *)
(* Text is a sequence of tokens.  A token is a string that stands for the  *)
(* characters it spells: "#START#", "#END#", "\n", "Epoch", "Loss G:" and   *)
(* "Loss D:" are the words the regular expressions of the code look for,   *)
(* every other token is one character.  The words occur in a text only as  *)
(* their tokens, so matching over tokens is matching over the characters.  *)
(***************************************************************************)
EXTENDS Integers, Sequences, FiniteSets, TLC

VARIABLES stdout, pc, matches, idx, output_dict, err,
          dictionary, cpc, cidx, cleaned_dict, cerr

vars == <<stdout, pc, matches, idx, output_dict, err,
          dictionary, cpc, cidx, cleaned_dict, cerr>>

parseVars == <<stdout, pc, matches, idx, output_dict, err>>
cleanVars == <<dictionary, cpc, cidx, cleaned_dict, cerr>>

(***************************************************************************)
(* Bounds of the model.                                                    *)
(***************************************************************************)
MaxUnits == 6
MaxLines == 2
MaxItems == 2

(***************************************************************************)
(* Tokens.                                                                 *)
(***************************************************************************)
START == "#START#"
END == "#END#"
NL == "\n"
SP == " "
EPOCH == "Epoch"
LG == "Loss G:"
LD == "Loss D:"
COMMA == ","
DOT == "."
MINUS == "-"

Digits == {"0", "1", "2", "3", "4", "5", "6", "7", "8", "9"}

DigitVal(c) ==
    CASE c = "0" -> 0 [] c = "1" -> 1 [] c = "2" -> 2 [] c = "3" -> 3
      [] c = "4" -> 4 [] c = "5" -> 5 [] c = "6" -> 6 [] c = "7" -> 7
      [] c = "8" -> 8 [] c = "9" -> 9

\* str.strip() / float() / int() whitespace, as far as the alphabet has it
Whitespace == {SP, NL}

\* str.lower() on one character of the alphabet
LowerChar(c) ==
    CASE c = "T" -> "t" [] c = "F" -> "f" [] c = "N" -> "n" [] c = "A" -> "a"
      [] c = "B" -> "b" [] OTHER -> c

Lower(s) == [i \in 1..Len(s) |-> LowerChar(s[i])]

Min(S) == CHOOSE x \in S : \A y \in S : x <= y

\* s[from..] (1-based), empty when from is past the end
Tail_(s, from) == SubSeq(s, from, Len(s))

AllIn(s, S) == \A i \in 1..Len(s) : s[i] \in S

\* str.strip()
Strip(s) ==
    LET keep == {i \in 1..Len(s) : s[i] \notin Whitespace}
    IN  IF keep = {} THEN <<>>
        ELSE SubSeq(s, Min(keep), CHOOSE x \in keep : \A y \in keep : y <= x)

\* str.lstrip('-')
LStripMinus(s) ==
    LET keep == {i \in 1..Len(s) : s[i] # MINUS}
    IN  IF keep = {} THEN <<>> ELSE Tail_(s, Min(keep))

\* str.isdigit(): non-empty and every character a digit
IsDigit(s) == Len(s) > 0 /\ AllIn(s, Digits)

\* the value of a run of decimal digits
RECURSIVE DigitsValue(_)
DigitsValue(s) ==
    IF Len(s) = 0 THEN 0
    ELSE 10 * DigitsValue(SubSeq(s, 1, Len(s) - 1)) + DigitVal(s[Len(s)])

\* str.split("\n")
RECURSIVE Split(_)
Split(s) ==
    LET nls == {i \in 1..Len(s) : s[i] = NL}
    IN  IF nls = {} THEN <<s>>
        ELSE <<SubSeq(s, 1, Min(nls) - 1)>> \o Split(Tail_(s, Min(nls) + 1))

\* a decimal m * 10^e without trailing zeros in m: equal numbers, equal values
RECURSIVE Normalize(_, _)
Normalize(m, e) ==
    IF m = 0 THEN [kind |-> "num", m |-> 0, e |-> 0]
    ELSE IF m % 10 = 0 THEN Normalize(m \div 10, e + 1)
    ELSE [kind |-> "num", m |-> m, e |-> e]

NoFloat == [ok |-> FALSE, val |-> [kind |-> "none", m |-> 0, e |-> 0]]

\* the part of s before the first c (all of s when it holds no c)
Before(s, c) ==
    IF \E i \in 1..Len(s) : s[i] = c
    THEN SubSeq(s, 1, Min({i \in 1..Len(s) : s[i] = c}) - 1)
    ELSE s

\* the part of s after the first c (none when it holds no c)
After(s, c) ==
    IF \E i \in 1..Len(s) : s[i] = c
    THEN Tail_(s, Min({i \in 1..Len(s) : s[i] = c}) + 1)
    ELSE <<>>

Has(s, c) == \E i \in 1..Len(s) : s[i] = c

\* s without one leading '-'
Unsigned(s) == IF Len(s) > 0 /\ s[1] = MINUS THEN Tail_(s, 2) ELSE s

Negative(s) == Len(s) > 0 /\ s[1] = MINUS

SignedValue(s) ==
    IF Negative(s) THEN 0 - DigitsValue(Unsigned(s)) ELSE DigitsValue(Unsigned(s))

\* int(text): optional whitespace around an optional '-' and a digit run
ParseInt(s) ==
    IF IsDigit(Unsigned(Strip(s)))
    THEN [ok |-> TRUE, val |-> SignedValue(Strip(s))]
    ELSE [ok |-> FALSE, val |-> 0]

\* digits [. [digits]] | . digits, with the exponent's value: the number
Decimal(ip, fp, neg, expo) ==
    IF AllIn(ip, Digits) /\ AllIn(fp, Digits) /\ Len(ip) + Len(fp) > 0
    THEN [ok |-> TRUE,
          val |-> Normalize(IF neg THEN 0 - DigitsValue(ip \o fp)
                            ELSE DigitsValue(ip \o fp),
                            expo - Len(fp))]
    ELSE NoFloat

\* mantissa [e [-] digits]
Scientific(u, neg) ==
    IF Has(u, "e")
    THEN IF IsDigit(Unsigned(After(u, "e")))
         THEN Decimal(Before(Before(u, "e"), DOT), After(Before(u, "e"), DOT),
                      neg, SignedValue(After(u, "e")))
         ELSE NoFloat
    ELSE Decimal(Before(u, DOT), After(u, DOT), neg, 0)

\* a stripped, lower-case text as a float
FloatOf(t) ==
    IF Unsigned(t) = <<"n", "a", "n">>
    THEN [ok |-> TRUE, val |-> [kind |-> "nan", m |-> 0, e |-> 0]]
    ELSE IF Unsigned(t) \in {<<"i", "n", "f">>, <<"i", "n", "f", "i", "n", "i", "t", "y">>}
    THEN [ok |-> TRUE,
          val |-> [kind |-> "inf", m |-> IF Negative(t) THEN -1 ELSE 1, e |-> 0]]
    ELSE Scientific(Unsigned(t), Negative(t))

\* float(text): whitespace stripped, case ignored; [-] nan | inf | infinity, or
\* [-] (digits [. [digits]] | . digits) [e [-] digits]
ParseFloat(s) == FloatOf(Lower(Strip(s)))

(***************************************************************************)
(* extract_loss_info_from_stdout: the regular expressions.                 *)
(***************************************************************************)

\* One match of r"#START#\n(.+?)\n(.+?)#END#" (re.DOTALL) starting exactly at
\* position p: the lazy header takes the fewest tokens (at least one) that
\* leave a line break, at least one body token and an "#END#" to follow; the
\* lazy body then runs to the first "#END#" it can end at.
HeaderLens(s, p) ==
    {h \in 1..Len(s) :
        /\ p + 2 + h <= Len(s)
        /\ s[p + 2 + h] = NL
        /\ \E e \in (p + 4 + h)..Len(s) : s[e] = END}

CanMatchAt(s, p) ==
    /\ p + 1 <= Len(s)
    /\ s[p] = START
    /\ s[p + 1] = NL
    /\ HeaderLens(s, p) # {}

MatchAt(s, p) ==
    LET h == Min(HeaderLens(s, p))
        e == Min({x \in (p + 4 + h)..Len(s) : s[x] = END})
    IN  [header |-> SubSeq(s, p + 2, p + 1 + h),
         body |-> SubSeq(s, p + 3 + h, e - 1),
         last |-> e]

\* re.findall(pattern, input_str, re.DOTALL): the non-overlapping matches,
\* left to right, each as (group 1, group 2)
RECURSIVE FindAllFrom(_, _)
FindAllFrom(s, p) ==
    IF p > Len(s) THEN <<>>
    ELSE IF CanMatchAt(s, p)
    THEN LET m == MatchAt(s, p)
         IN  <<[header |-> m.header, body |-> m.body]>> \o FindAllFrom(s, m.last + 1)
    ELSE FindAllFrom(s, p + 1)

\* a variant of the pattern whose body may also run to the end of the text
FindAllOrToEnd(s) ==
    IF FindAllFrom(s, 1) = <<>> /\ Has(s, START)
    THEN <<[header |-> <<>>, body |-> After(s, START)]>>
    ELSE FindAllFrom(s, 1)

FindAll(s) == FindAllFrom(s, 1)

NoGroup == [found |-> FALSE, group |-> <<>>]

\* re.findall(r"Epoch (\d+)", line): its first element, when there is one
FindEpoch(line) ==
    LET at == {i \in 1..Len(line) :
                 /\ i + 2 <= Len(line)
                 /\ line[i] = EPOCH /\ line[i + 1] = SP /\ line[i + 2] \in Digits}
    IN  IF at = {} THEN NoGroup
        ELSE LET b == Min(at) + 2
                 stop == {j \in b..Len(line) : line[j] \notin Digits} \cup {Len(line) + 1}
             IN  [found |-> TRUE, group |-> SubSeq(line, b, Min(stop) - 1)]

\* re.findall(r"Loss G: (.+?),", line): its first element, when there is one
FindLossG(line) ==
    LET at == {i \in 1..Len(line) :
                 /\ i + 1 <= Len(line)
                 /\ line[i] = LG /\ line[i + 1] = SP
                 /\ \E c \in (i + 3)..Len(line) : line[c] = COMMA}
    IN  IF at = {} THEN NoGroup
        ELSE LET i == Min(at)
                 c == Min({x \in (i + 3)..Len(line) : line[x] = COMMA})
             IN  [found |-> TRUE, group |-> SubSeq(line, i + 2, c - 1)]

\* re.findall(r"Loss D: (.+)", line): its first element, when there is one
FindLossD(line) ==
    LET at == {i \in 1..Len(line) :
                 i + 2 <= Len(line) /\ line[i] = LD /\ line[i + 1] = SP}
    IN  IF at = {} THEN NoGroup
        ELSE [found |-> TRUE, group |-> Tail_(line, Min(at) + 2)]

(***************************************************************************)
(* extract_loss_info_from_stdout: one block.                               *)
(***************************************************************************)
NoError == [type |-> "none", msg |-> <<>>]

\* [][0] of an empty findall result
IndexError == [type |-> "IndexError", msg |-> <<"list index out of range">>]

\* float() of a text that is no number
FloatError(text) ==
    [type |-> "ValueError",
     msg |-> <<"could not convert string to float: ", "'">> \o text \o <<"'">>]

\* pandas: the columns of a DataFrame have one length
LengthError ==
    [type |-> "ValueError", msg |-> <<"All arrays must be of the same length">>]

\* a variant of the line filter that also asks for the "Loss D: " field
EpochLineWithLossD(line) ==
    Len(line) > 0 /\ line[1] = EPOCH /\ FindLossD(line).found

\* a variant of the line filter that looks for "Epoch" anywhere in the line
EpochAnywhere(line) == Has(line, EPOCH)

\* line.startswith("Epoch")
IsEpochLine(line) == Len(line) > 0 /\ line[1] = EPOCH

\* for line in data_str.split("\n") if line.startswith("Epoch")
EpochLines(data_str) == SelectSeq(Split(data_str), IsEpochLine)

\* epoch_list: the comprehension stops at the first line that raises
EpochList(data_str) ==
    LET lines == EpochLines(data_str)
        bad == {i \in 1..Len(lines) : ~FindEpoch(lines[i]).found}
    IN  IF bad # {} THEN [error |-> IndexError, val |-> <<>>]
        ELSE [error |-> NoError,
              val |-> [i \in 1..Len(lines) |-> ParseInt(FindEpoch(lines[i]).group).val]]

\* the first error of float(group) over the lines, or the floats
LossList(groups) ==
    LET bad == {i \in 1..Len(groups) :
                  ~groups[i].found \/ ~ParseFloat(groups[i].group).ok}
    IN  IF bad # {}
        THEN [error |-> IF groups[Min(bad)].found
                        THEN FloatError(groups[Min(bad)].group)
                        ELSE IndexError,
              val |-> <<>>]
        ELSE [error |-> NoError,
              val |-> [i \in 1..Len(groups) |-> ParseFloat(groups[i].group).val]]

\* loss_g_list
LossGList(data_str) ==
    LossList([i \in 1..Len(EpochLines(data_str)) |-> FindLossG(EpochLines(data_str)[i])])

\* loss_d_list
LossDList(data_str) ==
    LossList([i \in 1..Len(EpochLines(data_str)) |-> FindLossD(EpochLines(data_str)[i])])

\* a variant of the table that orders its rows by epoch number
DataFrameSorted(epoch_list, loss_g_list, loss_d_list) ==
    [error |-> NoError,
     val |-> LET n == Len(epoch_list)
                 p == CHOOSE f \in [1..n -> 1..n] :
                        /\ \A i, j \in 1..n : i # j => f[i] # f[j]
                        /\ \A i \in 1..n : \A j \in 1..n :
                             i < j => epoch_list[f[i]] <= epoch_list[f[j]]
             IN  [i \in 1..n |->
                    <<epoch_list[p[i]], loss_g_list[p[i]], loss_d_list[p[i]]>>]]

\* pd.DataFrame({"Epoch": ..., "Loss_G": ..., "Loss_D": ...}): the rows
DataFrame(epoch_list, loss_g_list, loss_d_list) ==
    IF Len(epoch_list) = Len(loss_g_list) /\ Len(epoch_list) = Len(loss_d_list)
    THEN [error |-> NoError,
          val |-> [i \in 1..Len(epoch_list) |->
                     <<epoch_list[i], loss_g_list[i], loss_d_list[i]>>]]
    ELSE [error |-> LengthError, val |-> <<>>]

\* the three lists in the order the code builds them, then the table
ExtractTable(data_str) ==
    LET e == EpochList(data_str)
        g == LossGList(data_str)
        d == LossDList(data_str)
    IN  IF e.error # NoError THEN e
        ELSE IF g.error # NoError THEN g
        ELSE IF d.error # NoError THEN d
        ELSE DataFrame(e.val, g.val, d.val)

\* dataset_id = match[0].strip()
DatasetId(match) == Strip(match.header)

EmptyDict == [k \in {} |-> <<>>]

\* a variant of the store that appends to the table a key already has
PutAppend(d, key, value) ==
    [k \in (DOMAIN d) \cup {key} |->
        IF k # key THEN d[k]
        ELSE IF key \in DOMAIN d THEN d[key] \o value ELSE value]

\* d[key] = value
Put(d, key, value) ==
    [k \in (DOMAIN d) \cup {key} |-> IF k = key THEN value ELSE d[k]]

(***************************************************************************)
(* The captured standard output: what the training run printed, one unit   *)
(* per print.  A sub-run prints "#START#", its dataset id, its log lines   *)
(* and "#END#".                                                            *)
(***************************************************************************)
OkLine0 == <<EPOCH, SP, "0", SP, LG, SP, "1", COMMA, SP, LD, SP, "2">>
OkLine1 == <<EPOCH, SP, "1", SP, LG, SP, "2", DOT, "0", COMMA, SP, LD, SP, "1">>
NoLossD == <<EPOCH, SP, "2", SP, LG, SP, "1", COMMA>>
BadLossG == <<EPOCH, SP, "2", SP, LG, SP, "x", COMMA, SP, LD, SP, "1">>
NoEpochNum == <<EPOCH, "x", SP, LG, SP, "1", COMMA, SP, LD, SP, "2">>
NoiseLine == <<"x", SP, EPOCH, SP, "2", SP, LG, SP, "1", COMMA, SP, LD, SP, "1">>

Headers == {<<SP, "A">>, <<"B">>, <<>>}
BodyLines == {OkLine0, OkLine1, NoLossD, BadLossG, NoEpochNum, NoiseLine}
GapLines == {OkLine0}

StartUnit(h) == [kind |-> "start", text |-> h]
LineUnit(l) == [kind |-> "line", text |-> l]
EndUnit == [kind |-> "end", text |-> <<>>]

UnitText(u) ==
    CASE u.kind = "start" -> <<START, NL>> \o u.text \o <<NL>>
      [] u.kind = "line" -> u.text \o <<NL>>
      [] u.kind = "end" -> <<END, NL>>

RECURSIVE Flatten(_)
Flatten(units) ==
    IF Len(units) = 0 THEN <<>>
    ELSE Flatten(SubSeq(units, 1, Len(units) - 1)) \o UnitText(units[Len(units)])

\* input_str
InputStr == Flatten(stdout)

\* a sub-run has printed its "#START#" and not yet its "#END#"
InBlock(units) ==
    LET marks == {i \in 1..Len(units) : units[i].kind # "line"}
    IN  marks # {} /\ units[CHOOSE x \in marks : \A y \in marks : y <= x].kind = "start"

\* the log lines the running sub-run has printed so far
LinesInBlock(units) ==
    Cardinality({i \in 1..Len(units) :
                   /\ units[i].kind = "line"
                   /\ \A j \in i..Len(units) : units[j].kind = "line"})

(***************************************************************************)
(* The state machine.                                                      *)
(***************************************************************************)
ParseInit ==
    /\ stdout = <<>>
    /\ pc = "build"
    /\ matches = <<>>
    /\ idx = 0
    /\ output_dict = EmptyDict
    /\ err = NoError

CleanIdle ==
    /\ dictionary = <<>>
    /\ cpc = "idle"
    /\ cidx = 0
    /\ cleaned_dict = EmptyDict
    /\ cerr = NoError

Init == ParseInit /\ CleanIdle

WriteStart(h) ==
    /\ pc = "build"
    /\ Len(stdout) < MaxUnits
    /\ ~InBlock(stdout)
    /\ stdout' = Append(stdout, StartUnit(h))
    /\ UNCHANGED <<pc, matches, idx, output_dict, err>>
    /\ UNCHANGED cleanVars

WriteLine(l) ==
    /\ pc = "build"
    /\ Len(stdout) < MaxUnits
    /\ IF InBlock(stdout)
       THEN l \in BodyLines /\ LinesInBlock(stdout) < MaxLines
       ELSE l \in GapLines
    /\ stdout' = Append(stdout, LineUnit(l))
    /\ UNCHANGED <<pc, matches, idx, output_dict, err>>
    /\ UNCHANGED cleanVars

WriteEnd ==
    /\ pc = "build"
    /\ Len(stdout) < MaxUnits
    /\ stdout' = Append(stdout, EndUnit)
    /\ UNCHANGED <<pc, matches, idx, output_dict, err>>
    /\ UNCHANGED cleanVars

\* output_dict = {}; matches = re.findall(pattern, input_str, re.DOTALL)
Call ==
    /\ pc = "build"
    /\ matches' = FindAll(InputStr)
    /\ idx' = 1
    /\ output_dict' = EmptyDict
    /\ pc' = "loop"
    /\ UNCHANGED <<stdout, err>>
    /\ UNCHANGED cleanVars

\* one turn of "for match in matches"
Iterate ==
    /\ pc = "loop"
    /\ idx <= Len(matches)
    /\ LET df == ExtractTable(matches[idx].body)
       IN  IF df.error # NoError
           THEN /\ pc' = "raised"
                /\ err' = df.error
                /\ UNCHANGED <<idx, output_dict>>
           ELSE /\ output_dict' = Put(output_dict, DatasetId(matches[idx]), df.val)
                /\ idx' = idx + 1
                /\ UNCHANGED <<pc, err>>
    /\ UNCHANGED <<stdout, matches>>
    /\ UNCHANGED cleanVars

\* return output_dict
Return ==
    /\ pc = "loop"
    /\ idx > Len(matches)
    /\ pc' = "returned"
    /\ UNCHANGED <<stdout, matches, idx, output_dict, err>>
    /\ UNCHANGED cleanVars

Next ==
    \/ \E h \in Headers : WriteStart(h)
    \/ \E l \in BodyLines : WriteLine(l)
    \/ WriteEnd
    \/ Call
    \/ Iterate
    \/ Return

Spec == Init /\ [][Next]_vars

(***************************************************************************)
(* convert_and_clean_dict.                                                 *)
(***************************************************************************)
ZeroFloat == [kind |-> "num", m |-> 0, e |-> 0]

PyInt(n) == [type |-> "int", int |-> n, float |-> ZeroFloat, str |-> <<>>]
PyFloat(f) == [type |-> "float", int |-> 0, float |-> f, str |-> <<>>]
PyBool(b) == [type |-> "bool", int |-> IF b THEN 1 ELSE 0, float |-> ZeroFloat, str |-> <<>>]
PyNone == [type |-> "NoneType", int |-> 0, float |-> ZeroFloat, str |-> <<>>]
PyStr(s) == [type |-> "str", int |-> 0, float |-> ZeroFloat, str |-> s]

\* int() of a text that is no integer
IntError(text) ==
    [type |-> "ValueError",
     msg |-> <<"invalid literal for int() with base 10: ", "'">> \o text \o <<"'">>]

\* int(value), or the ValueError it raises
IntOf(value) ==
    IF ParseInt(value).ok
    THEN [error |-> NoError, val |-> PyInt(ParseInt(value).val)]
    ELSE [error |-> IntError(value), val |-> PyNone]

\* convert(value)
Convert(value) ==
    IF IsDigit(value) THEN IntOf(value)
    ELSE IF IsDigit(LStripMinus(value)) THEN IntOf(value)
    ELSE IF ParseFloat(value).ok
    THEN [error |-> NoError, val |-> PyFloat(ParseFloat(value).val)]
    ELSE IF Lower(value) = <<"t", "r", "u", "e">>
    THEN [error |-> NoError, val |-> PyBool(TRUE)]
    ELSE IF Lower(value) = <<"f", "a", "l", "s", "e">>
    THEN [error |-> NoError, val |-> PyBool(FALSE)]
    ELSE IF Lower(value) = <<"n", "o", "n", "e">>
    THEN [error |-> NoError, val |-> PyNone]
    ELSE [error |-> NoError, val |-> PyStr(value)]

\* value.strip() != "" and value.strip() != '{}'
IsKept(value) == Strip(value) # <<>> /\ Strip(value) # <<"{", "}">>

\* the keys and the string values of the argument
Keys == <<"a", "b", "c", "d">>

Values ==
    {<<"5">>, <<"-", "5">>, <<"-", "-", "5">>, <<"1", ".", "5">>, <<"-">>,
     <<"T", "r", "u", "e">>, <<"f", "a", "l", "s", "e">>, <<"N", "o", "n", "e">>,
     <<"x">>, <<SP, "5">>, <<>>, <<SP>>, <<"{", "}">>}

CleanInit ==
    /\ dictionary = <<>>
    /\ cpc = "build"
    /\ cidx = 0
    /\ cleaned_dict = EmptyDict
    /\ cerr = NoError

InitClean == ParseInit /\ CleanInit

\* the caller's dictionary[key] = value
AddItem(v) ==
    /\ cpc = "build"
    /\ Len(dictionary) < MaxItems
    /\ Len(dictionary) < Len(Keys)
    /\ dictionary' = Append(dictionary, [key |-> Keys[Len(dictionary) + 1], value |-> v])
    /\ UNCHANGED <<cpc, cidx, cleaned_dict, cerr>>
    /\ UNCHANGED parseVars

\* cleaned_dict = {}
CleanCall ==
    /\ cpc = "build"
    /\ cpc' = "loop"
    /\ cidx' = 1
    /\ cleaned_dict' = EmptyDict
    /\ UNCHANGED <<dictionary, cerr>>
    /\ UNCHANGED parseVars

\* one turn of "for key, value in dictionary.items()"
CleanStep ==
    /\ cpc = "loop"
    /\ cidx <= Len(dictionary)
    /\ IF ~IsKept(dictionary[cidx].value)
       THEN /\ cidx' = cidx + 1
            /\ UNCHANGED <<cpc, cleaned_dict, cerr>>
       ELSE IF Convert(dictionary[cidx].value).error # NoError
       THEN /\ cpc' = "raised"
            /\ cerr' = Convert(dictionary[cidx].value).error
            /\ UNCHANGED <<cidx, cleaned_dict>>
       ELSE /\ cleaned_dict' = Put(cleaned_dict, dictionary[cidx].key,
                                   Convert(dictionary[cidx].value).val)
            /\ cidx' = cidx + 1
            /\ UNCHANGED <<cpc, cerr>>
    /\ UNCHANGED dictionary
    /\ UNCHANGED parseVars

\* return cleaned_dict
CleanReturn ==
    /\ cpc = "loop"
    /\ cidx > Len(dictionary)
    /\ cpc' = "returned"
    /\ UNCHANGED <<dictionary, cidx, cleaned_dict, cerr>>
    /\ UNCHANGED parseVars

NextClean ==
    \/ \E v \in Values : AddItem(v)
    \/ CleanCall
    \/ CleanStep
    \/ CleanReturn

SpecClean == InitClean /\ [][NextClean]_vars

(***************************************************************************)
(* What the properties speak of.                                           *)
(***************************************************************************)

\* the lines of a body, each text between two line breaks
BodyLinesOf(match) == Split(match.body)

\* a line that begins with the literal "Epoch"
StartsWithEpoch(line) == Len(line) > 0 /\ line[1] = EPOCH

\* the three fields of an epoch line, as the specification words them
HasEpochNumber(line) ==
    \E i \in 1..Len(line) :
        i + 2 <= Len(line) /\ line[i] = EPOCH /\ line[i + 1] = SP /\ line[i + 2] \in Digits

HasLossG(line) ==
    \E i \in 1..Len(line) : \E c \in 1..Len(line) :
        /\ i + 1 <= Len(line)
        /\ line[i] = LG /\ line[i + 1] = SP /\ c >= i + 3 /\ line[c] = COMMA

HasLossD(line) ==
    \E i \in 1..Len(line) : i + 2 <= Len(line) /\ line[i] = LD /\ line[i + 1] = SP

WellFormed(line) ==
    /\ HasEpochNumber(line) /\ HasLossG(line) /\ HasLossD(line)
    /\ ParseFloat(FindLossG(line).group).ok
    /\ ParseFloat(FindLossD(line).group).ok

Malformed(line) == StartsWithEpoch(line) /\ ~WellFormed(line)

\* the row an epoch line stands for
RowOf(line) ==
    <<ParseInt(FindEpoch(line).group).val,
      ParseFloat(FindLossG(line).group).val,
      ParseFloat(FindLossD(line).group).val>>

\* the rows of the lines that begin with "Epoch", in the order of the lines
RowsOf(lines) ==
    [i \in 1..Len(SelectSeq(lines, StartsWithEpoch)) |->
        RowOf(SelectSeq(lines, StartsWithEpoch)[i])]

RECURSIVE JoinLines(_)
JoinLines(lines) ==
    IF Len(lines) = 0 THEN <<>>
    ELSE IF Len(lines) = 1 THEN lines[1]
    ELSE lines[1] \o <<NL>> \o JoinLines(Tail(lines))

\* the matches that carry a key, and the last of them
MatchesWith(key) == {k \in 1..Len(matches) : DatasetId(matches[k]) = key}

LastWith(key) == CHOOSE k \in MatchesWith(key) : \A j \in MatchesWith(key) : j <= k

\* s holds sub as a run of consecutive tokens
Contains(s, sub) ==
    \E i \in 0..Len(s) : i + Len(sub) <= Len(s) /\ SubSeq(s, i + 1, i + Len(sub)) = sub

\* the sub-runs as they were printed: the "#START#" units, each with the lines
\* up to the first "#END#" after it
StartsAt == {i \in 1..Len(stdout) : stdout[i].kind = "start"}

EndsAfter(i) == {j \in (i + 1)..Len(stdout) : stdout[j].kind = "end"}

ClosedStarts == {i \in StartsAt : EndsAfter(i) # {}}

PrintedLines(i) ==
    [k \in 1..(Min(EndsAfter(i)) - i - 1) |-> stdout[i + k].text]

PrintedKey(i) == Strip(stdout[i].text)

\* every "#END#" closes a sub-run and every sub-run is closed
Balanced ==
    /\ StartsAt = ClosedStarts
    /\ \A j \in 1..Len(stdout) :
          stdout[j].kind = "end" => \E i \in StartsAt : Min(EndsAfter(i)) = j

ValidLines(i) == \A k \in 1..Len(PrintedLines(i)) : ~Malformed(PrintedLines(i)[k])

DistinctKeys == \A i, j \in StartsAt : i # j => PrintedKey(i) # PrintedKey(j)

\* the text holds no "#START#" with an "#END#" after it
NoPair(s) == ~\E i \in 1..Len(s) : \E j \in 1..Len(s) : i < j /\ s[i] = START /\ s[j] = END

(***************************************************************************)
(* The properties.                                                         *)
(***************************************************************************)

\* C1: when a matched block's body has a line that starts with "Epoch" and
\* lacks one of the three fields, or has a field that is no number, the call
\* does not return: it ends in an error, and no table is stored for that
\* block (neither with the row dropped nor with values shifted).
C1_MalformedLineRaises ==
    /\ pc = "returned" =>
          \A k \in 1..Len(matches) : \A n \in 1..Len(BodyLinesOf(matches[k])) :
              ~Malformed(BodyLinesOf(matches[k])[n])
    /\ pc = "loop" =>
          \A k \in 1..(idx - 1) : \A n \in 1..Len(BodyLinesOf(matches[k])) :
              ~Malformed(BodyLinesOf(matches[k])[n])

\* a call that raised on a block whose malformed line is followed by a
\* well-formed epoch line
C1_Witness ==
    /\ pc = "raised"
    /\ \E n \in 1..Len(BodyLinesOf(matches[idx])) :
          /\ Malformed(BodyLinesOf(matches[idx])[n])
          /\ \E q \in (n + 1)..Len(BodyLinesOf(matches[idx])) :
                /\ StartsWithEpoch(BodyLinesOf(matches[idx])[q])
                /\ WellFormed(BodyLinesOf(matches[idx])[q])

\* C2: whenever the call returns, each table has one row per body line that
\* starts with "Epoch", in the order of those lines, and row i holds the epoch
\* number and the two losses of the i-th such line; nothing is sorted and
\* repeated epoch numbers stay separate rows.
C2_RowsFollowLines ==
    pc = "returned" =>
        \A key \in DOMAIN output_dict :
            \E k \in MatchesWith(key) :
                /\ Len(output_dict[key]) =
                      Len(SelectSeq(BodyLinesOf(matches[k]), StartsWithEpoch))
                /\ \A i \in 1..Len(output_dict[key]) :
                      output_dict[key][i] =
                          RowOf(SelectSeq(BodyLinesOf(matches[k]), StartsWithEpoch)[i])

\* a returned table of two rows whose epoch numbers do not increase
C2_Witness ==
    /\ pc = "returned"
    /\ \E key \in DOMAIN output_dict :
          /\ Len(output_dict[key]) = 2
          /\ output_dict[key][1][1] >= output_dict[key][2][1]
          /\ output_dict[key][1] # output_dict[key][2]

\* C4: when several blocks have the same stripped header line, the key holds
\* the table of the last of them only: the earlier rows are replaced, not
\* merged with the later ones.
C4_LastWriteWins ==
    pc = "returned" =>
        \A key \in DOMAIN output_dict :
            output_dict[key] = RowsOf(BodyLinesOf(matches[LastWith(key)]))

\* two blocks under one key, with different non-empty tables
C4_Witness ==
    /\ pc = "returned"
    /\ \E key \in DOMAIN output_dict :
          \E j \in MatchesWith(key) :
              /\ j < LastWith(key)
              /\ Len(RowsOf(BodyLinesOf(matches[j]))) > 0
              /\ Len(output_dict[key]) > 0
              /\ RowsOf(BodyLinesOf(matches[j])) # output_dict[key]

\* C5: a body line counts as an epoch line exactly when it starts with
\* "Epoch": the table has as many rows as the body has such lines, it is the
\* table of the body with every other line taken out, and a call that raises
\* raises on a line that starts with "Epoch".
C5_OnlyEpochPrefixedLines ==
    /\ pc = "returned" =>
          \A key \in DOMAIN output_dict :
              /\ Len(output_dict[key]) =
                    Cardinality({n \in 1..Len(BodyLinesOf(matches[LastWith(key)])) :
                                   StartsWithEpoch(BodyLinesOf(matches[LastWith(key)])[n])})
              /\ ExtractTable(JoinLines(SelectSeq(BodyLinesOf(matches[LastWith(key)]),
                                                  StartsWithEpoch)))
                    = [error |-> NoError, val |-> output_dict[key]]
    /\ pc = "raised" =>
          \E n \in 1..Len(BodyLinesOf(matches[idx])) :
              Malformed(BodyLinesOf(matches[idx])[n])

\* a returned table of a body with a line that holds "Epoch" and the loss
\* fields but does not start with "Epoch"
C5_Witness ==
    /\ pc = "returned"
    /\ \E key \in DOMAIN output_dict :
          /\ Len(output_dict[key]) > 0
          /\ \E n \in 1..Len(BodyLinesOf(matches[LastWith(key)])) :
                /\ ~StartsWithEpoch(BodyLinesOf(matches[LastWith(key)])[n])
                /\ WellFormed(BodyLinesOf(matches[LastWith(key)])[n])

\* C6: an input with no "#START#" that has an "#END#" after it gives an
\* empty mapping and no error.
C6_NoPairGivesEmpty ==
    (pc # "build" /\ NoPair(InputStr)) =>
        /\ pc # "raised"
        /\ matches = <<>>
        /\ output_dict = EmptyDict

\* a returned call on a text that holds both markers, the "#END#" first
C6_Witness ==
    /\ pc = "returned"
    /\ NoPair(InputStr)
    /\ Has(InputStr, START)
    /\ Has(InputStr, END)

\* C3: an input of N sub-runs, each "#START#", line break, header line, line
\* break, body, "#END#", with pairwise distinct stripped header lines and
\* valid epoch lines, and marker-free text between them, gives a mapping of
\* exactly N keys, the stripped header lines, each with the table of its own
\* block's epoch lines.
C3_OneKeyPerBlock ==
    (pc = "returned" /\ Balanced /\ DistinctKeys /\ \A i \in StartsAt : ValidLines(i)) =>
        /\ DOMAIN output_dict = {PrintedKey(i) : i \in StartsAt}
        /\ \A i \in StartsAt : output_dict[PrintedKey(i)] = RowsOf(PrintedLines(i))

\* the same, for sub-runs that printed a header line that is not empty and at
\* least one line of body: this much the code does
NonEmptyBlocks ==
    \A i \in StartsAt : Len(stdout[i].text) > 0 /\ Len(PrintedLines(i)) > 0

OneKeyPerNonEmptyBlock ==
    (/\ pc = "returned" /\ Balanced /\ DistinctKeys /\ NonEmptyBlocks
     /\ \A i \in StartsAt : ValidLines(i)) =>
        /\ DOMAIN output_dict = {PrintedKey(i) : i \in StartsAt}
        /\ \A i \in StartsAt : output_dict[PrintedKey(i)] = RowsOf(PrintedLines(i))

\* C7: a block whose header line is empty or only whitespace is accepted: the
\* empty string is a key of the returned mapping, with the table of that
\* block's body lines.
C7_BlankHeaderIsEmptyKey ==
    (/\ pc = "returned" /\ Balanced /\ DistinctKeys
     /\ \A i \in StartsAt : ValidLines(i) /\ Len(PrintedLines(i)) > 0) =>
        \A i \in StartsAt :
            PrintedKey(i) = <<>> =>
                /\ <<>> \in DOMAIN output_dict
                /\ output_dict[<<>>] = RowsOf(PrintedLines(i))

\* C8: the error of a call that fails on a malformed epoch line names the
\* dataset identifier of the block and the content of the offending line.
C8_ErrorNamesBlockAndLine ==
    pc = "raised" =>
        /\ Contains(err.msg, DatasetId(matches[idx]))
        /\ \E n \in 1..Len(BodyLinesOf(matches[idx])) :
              /\ Malformed(BodyLinesOf(matches[idx])[n])
              /\ Contains(err.msg, BodyLinesOf(matches[idx])[n])

\* C9: the table stored under the header line of a "#START#" that has an
\* "#END#" after it holds only rows of epoch lines printed between that header
\* line and the first "#END#" after it, also when nothing was printed between
\* them.
C9_RowsComeFromOwnBlock ==
    pc = "returned" =>
        \A i \in ClosedStarts :
            (PrintedKey(i) # <<>> /\ PrintedKey(i) \in DOMAIN output_dict) =>
                \A r \in 1..Len(output_dict[PrintedKey(i)]) :
                    \E j \in ClosedStarts :
                        /\ PrintedKey(j) = PrintedKey(i)
                        /\ \E q \in 1..Len(RowsOf(PrintedLines(j))) :
                              RowsOf(PrintedLines(j))[q] = output_dict[PrintedKey(i)][r]

\* the values the specification of convert names
IsIntegerText(v) == IsDigit(v) \/ (Len(v) > 1 /\ v[1] = MINUS /\ IsDigit(Tail(v)))

IsConvertible(v) ==
    \/ IsIntegerText(v)
    \/ ParseFloat(v).ok
    \/ Lower(v) \in {<<"t", "r", "u", "e">>, <<"f", "a", "l", "s", "e">>, <<"n", "o", "n", "e">>}

KeptKeys ==
    {dictionary[i].key : i \in {j \in 1..Len(dictionary) : IsKept(dictionary[j].value)}}

\* C10: for a dictionary of strings convert_and_clean_dict raises nothing and
\* returns the keys whose stripped value is neither empty nor "{}"; a kept
\* value that is no integer, negative integer, float, true/false or none comes
\* back unchanged, values of several '-' and digits among them.
C10_CleansWithoutError ==
    /\ cpc # "raised"
    /\ cpc = "returned" =>
          /\ DOMAIN cleaned_dict = KeptKeys
          /\ \A i \in 1..Len(dictionary) :
                (IsKept(dictionary[i].value) /\ ~IsConvertible(dictionary[i].value)) =>
                    cleaned_dict[dictionary[i].key] = PyStr(dictionary[i].value)

====
